---- MODULE Spec2Model ----
(***************************************************************************)
(* A model of ignorance/git.py: the .gitignore pattern compiler            *)
(* (rule_from_pattern), the ignore-file reader (rules_from_file) and the   *)
(* rule-obeying directory walk (walk).                                     *)
(*                                                                         *)
(* A text is a sequence of one-character strings.  A path is the sequence  *)
(* of its parts as pathlib reports them: an absolute path starts with the  *)
(* part "/", a relative one does not, and the empty sequence is ".".       *)
(***************************************************************************)
EXTENDS Integers, Sequences, FiniteSets, TLC

VARIABLES
    \* ---- one call of rule_from_pattern
    pattern,        \* the pattern text handed to rule_from_pattern
    base_path,      \* its base_path argument
    result,         \* what the call produced (Pending before the call)
    \* ---- one call of walk
    directory,      \* the directory argument
    onerror,        \* the onerror argument: "absent", "returns" or "raises"
    overrides_arg,  \* the overrides argument: a list of pattern texts
    ignore_arg,     \* the ignore_completely argument: Default or a list
    ignore_files,   \* the content of the ignore file of each directory
    unreadable,     \* the directories whose listing fails
    pc,             \* position of the generator
    exc,            \* the exception that ended the generator, or "none"
    overrides,      \* compiled overrides
    ignore_completely, \* compiled hard excludes
    rule_list,      \* relative directory path -> rules declared there
    stack,          \* directories the underlying walk still has to visit
    yielded,        \* the tuples yielded so far
    chains,         \* history: the flat_list built for each yielded tuple
    enumerated,     \* history: directories whose entries were listed
    opened,         \* history: ignore files that were opened
    failed,         \* history: directories whose listing failed
    reported        \* history: directories whose failure reached onerror

compile_vars == <<pattern, base_path, result>>
walk_vars == <<directory, onerror, overrides_arg, ignore_arg, ignore_files,
               unreadable, pc, exc, overrides, ignore_completely, rule_list,
               stack, yielded, chains, enumerated, opened, failed,
               reported>>
vars == <<compile_vars, walk_vars>>

-----------------------------------------------------------------------------
(* Bounds *)

\* longest pattern text handed to rule_from_pattern on its own
MaxLen == 5

\* most lines in the ignore file of the starting directory
MaxLines == 2

-----------------------------------------------------------------------------
(* Texts *)

Chars == {"a", "*", "/", "!", "#", " "}

RECURSIVE TextsUpTo(_)
TextsUpTo(n) ==
    IF n = 0 THEN {<<>>}
    ELSE LET shorter == TextsUpTo(n - 1)
         IN shorter \cup {Append(t, c) : t \in {s \in shorter : Len(s) = n - 1},
                                          c \in Chars}

\* s[i:] and s[:j] of Python, on 1-based sequences
DropFirst(s, k) == SubSeq(s, k + 1, Len(s))
Front(s) == SubSeq(s, 1, Len(s) - 1)

\* str.rstrip(), str.lstrip() and str.strip(): the only whitespace is " "
RECURSIVE RStrip(_)
RStrip(s) ==
    IF s # <<>> /\ s[Len(s)] = " " THEN RStrip(Front(s)) ELSE s

RECURSIVE LStrip(_)
LStrip(s) ==
    IF s # <<>> /\ s[1] = " " THEN LStrip(Tail(s)) ELSE s

Strip(s) == LStrip(RStrip(s))

\* c in s
Contains(s, c) == \E i \in 1..Len(s) : s[i] = c

\* pattern.find('***') > -1
FindTripleAsterisk(s) ==
    \E i \in 1..(Len(s) - 2) : s[i] = "*" /\ s[i + 1] = "*" /\ s[i + 2] = "*"

\* re.finditer(r'\*\*', s): the 1-based starts of the non-overlapping
\* matches, scanning left to right from position i
RECURSIVE DoubleAsteriskStarts(_, _)
DoubleAsteriskStarts(s, i) ==
    IF i + 1 > Len(s) THEN {}
    ELSE IF s[i] = "*" /\ s[i + 1] = "*"
         THEN {i} \cup DoubleAsteriskStarts(s, i + 2)
         ELSE DoubleAsteriskStarts(s, i + 1)

-----------------------------------------------------------------------------
(* Paths *)

None == <<"None">>

IsAbsolute(p) == p # <<>> /\ p[1] = "/"

\* the working directory of the process
Cwd == <<"/">>

\* os.path.abspath
AbsPath(p) == IF IsAbsolute(p) THEN p ELSE Cwd \o p

\* os.path.join(root, name) for a single name
Join(p, name) == Append(p, name)

\* Path.parents: the proper ancestors, nearest first
Parents(p) ==
    LET lowest == IF IsAbsolute(p) THEN 1 ELSE 0
        n == Len(p) - lowest
    IN [i \in 1..(IF n > 0 THEN n ELSE 0) |-> SubSeq(p, 1, Len(p) - i)]

IsPrefix(a, b) == Len(a) <= Len(b) /\ SubSeq(b, 1, Len(a)) = a

\* Path.relative_to succeeds exactly when the other path is a prefix
CanRelativeTo(p, other) == IsPrefix(other, p)
RelativeTo(p, other) == DropFirst(p, Len(other))

Range(s) == {s[i] : i \in 1..Len(s)}

-----------------------------------------------------------------------------
(* Rules: utils.IgnoreRule, and what rule_from_pattern can produce *)

NoRegex == [anchor |-> FALSE, tokens |-> <<>>]
NoSource == [file |-> <<>>, line |-> 0]

\* an IgnoreRule returned by rule_from_pattern
IgnoreRule(orig, regex, negation, directory_only, anchored, base, source) ==
    [kind |-> "rule", exc |-> "none", pattern |-> orig, regex |-> regex,
     negation |-> negation, directory_only |-> directory_only,
     anchored |-> anchored, base_path |-> base, source |-> source]

\* rule_from_pattern returned None
Absent ==
    [kind |-> "absent", exc |-> "none", pattern |-> <<>>, regex |-> NoRegex,
     negation |-> FALSE, directory_only |-> FALSE, anchored |-> FALSE,
     base_path |-> None, source |-> NoSource]

\* rule_from_pattern raised the exception e
Raised(e) ==
    [kind |-> "raise", exc |-> e, pattern |-> <<>>, regex |-> NoRegex,
     negation |-> FALSE, directory_only |-> FALSE, anchored |-> FALSE,
     base_path |-> None, source |-> NoSource]

\* no call of rule_from_pattern has been made
Pending ==
    [kind |-> "pending", exc |-> "none", pattern |-> <<>>, regex |-> NoRegex,
     negation |-> FALSE, directory_only |-> FALSE, anchored |-> FALSE,
     base_path |-> None, source |-> NoSource]

\* utils.fnmatch_pathname_to_regex: the fragment as a sequence of regex
\* tokens; "**" becomes ".*", a single "*" becomes "[^/]*", and every other
\* character stands for itself
RECURSIVE fnmatch_pathname_to_regex(_)
fnmatch_pathname_to_regex(frag) ==
    IF frag = <<>> THEN <<>>
    ELSE IF Len(frag) >= 2 /\ frag[1] = "*" /\ frag[2] = "*"
         THEN <<".*">> \o fnmatch_pathname_to_regex(DropFirst(frag, 2))
    ELSE IF frag[1] = "*"
         THEN <<"[^/]*">> \o fnmatch_pathname_to_regex(Tail(frag))
    ELSE <<frag[1]>> \o fnmatch_pathname_to_regex(Tail(frag))

-----------------------------------------------------------------------------
(* rule_from_pattern *)

\* the base_path check that opens rule_from_pattern
BasePathNotAbsolute(base) ==
    base # None /\ base # <<>> /\ base # AbsPath(base)

\* comments, separators and texts with three asterisks in a row
Discarded(text) ==
    \/ Strip(text) = <<>>
    \/ text[1] = "#"
    \/ FindTripleAsterisk(text)

\* the leading bang
Negation(text) == text[1] = "!"
StripBang(text) == IF Negation(text) THEN Tail(text) ELSE text

\* the loop over the double asterisks of the body (bang already stripped)
InvalidDoubleAsteriskSlashEitherSide(body) ==
    \E i \in DoubleAsteriskStarts(body, 1) :
        /\ i # 1
        /\ i # Len(body) - 1
        /\ body[i - 1] # "/" /\ body[i + 2] # "/"

InvalidDoubleAsterisk(body) ==
    \E i \in DoubleAsteriskStarts(body, 1) :
        /\ i # 1
        /\ i # Len(body) - 1
        /\ (body[i - 1] # "/" \/ body[i + 2] # "/")

\* the special case of "/"
OnlySlash(body) == RStrip(body) = <<"/">>

\* anchored = '/' in pattern[:-1]
SlashBeforeLast(body) == Contains(Front(body), "/")

\* The tail of rule_from_pattern, from directory_only on.  Each subscript
\* of an empty or too short text raises IndexError.
BuildRule(orig, body, negation, base, source) ==
    IF body = <<>> THEN Raised("IndexError")            \* pattern[-1]
    ELSE
    LET directory_only == body[Len(body)] = "/"
        p1 == IF body[1] = "/" THEN Tail(body) ELSE body
    IN  IF p1 = <<>> THEN Raised("IndexError")           \* pattern[0]
        ELSE IF p1[1] = "*" /\ Len(p1) < 2
             THEN Raised("IndexError")                   \* pattern[1]
        ELSE
        LET leading == p1[1] = "*" /\ p1[2] = "*"
            p2 == IF leading THEN DropFirst(p1, 2) ELSE p1
            anchored == IF leading THEN FALSE ELSE SlashBeforeLast(body)
        IN  IF p2 = <<>> THEN Raised("IndexError")       \* pattern[0]
            ELSE
            LET p3 == IF p2[1] = "/" THEN Tail(p2) ELSE p2
            IN  IF p3 = <<>> THEN Raised("IndexError")   \* pattern[-1]
                ELSE
                LET p4 == IF p3[Len(p3)] = "/" THEN Front(p3) ELSE p3
                    regex == [anchor |-> anchored,
                              tokens |-> fnmatch_pathname_to_regex(p4)]
                IN  IgnoreRule(orig, regex, negation, directory_only,
                               anchored,
                               IF base # None /\ base # <<>> THEN base
                               ELSE None,
                               source)

rule_from_pattern(text, base, source) ==
    IF BasePathNotAbsolute(base) THEN Raised("ValueError")
    ELSE IF Discarded(text) THEN Absent
    ELSE IF InvalidDoubleAsterisk(StripBang(text)) THEN Absent
    ELSE IF OnlySlash(StripBang(text)) THEN Absent
    ELSE BuildRule(text, StripBang(text), Negation(text), base, source)

-----------------------------------------------------------------------------
(* Matching: utils.IgnoreRule.match *)

\* the characters of each file and directory name of the tree
NameChars(name) ==
    CASE name = "/" -> <<"/">>
      [] name = ".git" -> <<".", "g", "i", "t">>
      [] name = ".gitignore" -> <<".", "g", "i", "t", "i", "g", "n", "o", "r", "e">>
      [] OTHER -> <<name>>

\* str(path)
RECURSIVE PathText(_)
PathText(parts) ==
    IF parts = <<>> THEN <<>>
    ELSE IF parts[1] = "/" THEN <<"/">> \o PathText(Tail(parts))
    ELSE IF Len(parts) = 1 THEN NameChars(parts[1])
    ELSE NameChars(parts[1]) \o <<"/">> \o PathText(Tail(parts))

\* the regex tokens match the whole of text
RECURSIVE TokensMatch(_, _)
TokensMatch(tokens, text) ==
    IF tokens = <<>> THEN text = <<>>
    ELSE IF tokens[1] = ".*"
         THEN \/ TokensMatch(Tail(tokens), text)
              \/ text # <<>> /\ TokensMatch(tokens, Tail(text))
    ELSE IF tokens[1] = "[^/]*"
         THEN \/ TokensMatch(Tail(tokens), text)
              \/ text # <<>> /\ text[1] # "/" /\ TokensMatch(tokens, Tail(text))
    ELSE text # <<>> /\ text[1] = tokens[1] /\ TokensMatch(Tail(tokens), Tail(text))

\* rule.match(abs_path): the path is taken relative to the rule's base_path,
\* or as it is when the rule has none (walk only ever matches a rule against
\* paths below its base_path); an anchored rule matches from the start, any
\* other rule matches a trailing run of whole path segments
Match(rule, abs_path) ==
    LET rel == IF rule.base_path # None /\ CanRelativeTo(abs_path, rule.base_path)
               THEN RelativeTo(abs_path, rule.base_path)
               ELSE abs_path
        text == PathText(rel)
    IN  IF rule.regex.anchor
        THEN TokensMatch(rule.regex.tokens, text)
        ELSE \E j \in 1..Len(text) :
                /\ j = 1 \/ text[j - 1] = "/"
                /\ TokensMatch(rule.regex.tokens, DropFirst(text, j - 1))

-----------------------------------------------------------------------------
(* rules_from_file *)

\* the results of compiling each line, with its 1-based line number
CompiledLines(lines, base, full_path) ==
    [i \in 1..Len(lines) |->
        rule_from_pattern(lines[i], AbsPath(base),
                          [file |-> full_path, line |-> i])]

\* the exception of the first call that raised, or "none"
FirstRaise(results) ==
    IF \E i \in 1..Len(results) : results[i].kind = "raise"
    THEN LET i == CHOOSE k \in 1..Len(results) :
                    /\ results[k].kind = "raise"
                    /\ \A j \in 1..(k - 1) : results[j].kind # "raise"
         IN results[i].exc
    ELSE "none"

IsRule(r) == r.kind = "rule"

\* rules_from_file on a file with the given lines: the rules of the lines
\* that compile, in file order, unless a line makes rule_from_pattern raise
rules_from_file(lines, filename, base) ==
    LET results == CompiledLines(lines, base, Join(base, filename))
    IN  [exc |-> FirstRaise(results), rules |-> SelectSeq(results, IsRule)]

-----------------------------------------------------------------------------
(* The directory tree the walk runs on *)

StartDir == <<"/", "r">>
RelativeDir == <<"r">>

DirA == <<"/", "r", "a">>
DirB == <<"/", "r", "a", "b">>
DirC == <<"/", "r", "a", "b", "c">>
DirS == <<"/", "r", "s">>
DirGit == <<"/", "r", ".git">>
DirGitX == <<"/", "r", ".git", "x">>

Dirs == {StartDir, DirA, DirB, DirC, DirS, DirGit, DirGitX}

\* the subdirectories of a directory, in the order the listing reports them
SubDirs(dir) ==
    CASE dir = StartDir -> <<"a", ".git", "s">>
      [] dir = DirA -> <<"b">>
      [] dir = DirB -> <<"c">>
      [] dir = DirGit -> <<"x">>
      [] OTHER -> <<>>

\* the default of walk's filename parameter
DefaultFilename == ".gitignore"

NoFile == <<<<"no file">>>>

\* the files of a directory other than its ignore file
PlainFiles(dir) ==
    CASE dir = DirB -> <<>>
      [] dir = DirGitX -> <<>>
      [] OTHER -> <<"k">>

\* the files of a directory, given the ignore files that exist
Files(dir, igfiles) ==
    IF igfiles[dir] = NoFile THEN PlainFiles(dir)
    ELSE <<DefaultFilename>> \o PlainFiles(dir)

-----------------------------------------------------------------------------
(* walk: setup *)

ManualOverride == [file |-> <<"manual override">>, line |-> 0]
ApplicationOverride == [file |-> <<"application-level override">>, line |-> 0]

\* ignore_completely=None
Default == <<<<"default">>>>

\* overrides = [rule_from_pattern(p, str(starting_directory), ...) ...]
CompileOverrides(texts, starting_directory) ==
    [i \in 1..Len(texts) |->
        rule_from_pattern(texts[i], starting_directory, ManualOverride)]

\* the texts of the hard excludes: ['.git'] when the argument is None
IgnoreCompletelyTexts(arg) ==
    IF arg = Default THEN <<NameChars(".git")>> ELSE arg

\* ignore_completely = [rule_from_pattern(p, source=...) ...]
CompileIgnoreCompletely(arg) ==
    LET texts == IgnoreCompletelyTexts(arg)
    IN  [i \in 1..Len(texts) |->
            rule_from_pattern(texts[i], None, ApplicationOverride)]

\* [rule for rule in ignore_completely if rule.negation]
NegationRulesOverlooked(rules) ==
    <<>>

NegationRules(rules) ==
    SelectSeq(rules, LAMBDA r : r.negation)

\* The exception the setup ends with, or "none": a pattern that makes
\* rule_from_pattern raise, a None among the compiled hard excludes (its
\* negation attribute is read), or a negation rule among them.
SetupException(over, hard) ==
    IF FirstRaise(over) # "none" THEN FirstRaise(over)
    ELSE IF FirstRaise(hard) # "none" THEN FirstRaise(hard)
    ELSE IF \E i \in 1..Len(hard) : hard[i].kind = "absent"
         THEN "AttributeError"
    ELSE IF NegationRules(hard) # <<>> THEN "ValueError"
    ELSE "none"

-----------------------------------------------------------------------------
(* walk: the rule chain of one directory *)

\* The loop over Path(root).parents: each parent's rules are appended and
\* the loop is left at the first parent that is not an ancestor of the
\* starting directory.  relative_to raises ValueError for a parent that is
\* not inside the starting directory.
RECURSIVE ParentRules(_, _, _, _, _)
ParentRules(parents, i, rl, starting_directory, acc) ==
    IF i > Len(parents) THEN [exc |-> "none", lists |-> acc]
    ELSE IF ~CanRelativeTo(parents[i], starting_directory)
         THEN [exc |-> "ValueError", lists |-> acc]
    ELSE IF RelativeTo(parents[i], starting_directory) \notin DOMAIN rl
         THEN [exc |-> "KeyError", lists |-> acc]
    ELSE LET acc1 == Append(acc, rl[RelativeTo(parents[i], starting_directory)])
         IN  IF parents[i] \notin Range(Parents(starting_directory))
             THEN [exc |-> "none", lists |-> acc1]
             ELSE ParentRules(parents, i + 1, rl, starting_directory, acc1)

Reverse(s) == [i \in 1..Len(s) |-> s[Len(s) + 1 - i]]

\* itertools.chain.from_iterable
RECURSIVE Flatten(_)
Flatten(lists) ==
    IF lists = <<>> THEN <<>> ELSE Head(lists) \o Flatten(Tail(lists))

\* applicable_rules, ordered from the base down: rl already holds the rules
\* of the directory itself under rel_path
ApplicableRules(root, dir, rl, starting_directory) ==
    LET rel_path == RelativeTo(AbsPath(root), starting_directory)
        own == <<rl[rel_path]>>
        up == IF root # dir
              THEN ParentRules(Parents(root), 1, rl, starting_directory, own)
              ELSE [exc |-> "none", lists |-> own]
    IN  [exc |-> up.exc, lists |-> Reverse(Append(up.lists, rl[<<>>]))]

\* flat_list: the applicable rules, then the overrides, then the hard
\* excludes
FlatListHardExcludesFirst(applicable, over, hard) ==
    hard \o Flatten(applicable) \o over

FlatList(applicable, over, hard) ==
    Flatten(applicable) \o over \o hard

-----------------------------------------------------------------------------
(* walk: the inclusion decision *)

\* one turn of the loop over flat_list for a directory entry
DirStepNoGuard(included, rule, path) ==
    IF Match(rule, path) THEN ~included ELSE included

DirStep(included, rule, path) ==
    IF included # rule.negation
    THEN IF Match(rule, path) THEN ~included ELSE included
    ELSE included

\* one turn of the loop over flat_list for a file entry
FileStep(included, rule, path) ==
    IF rule.directory_only THEN included
    ELSE IF included # rule.negation
         THEN IF Match(rule, AbsPath(path)) THEN ~included ELSE included
    ELSE included

RECURSIVE DirIncluded(_, _, _)
DirIncluded(flat_list, path, included) ==
    IF flat_list = <<>> THEN included
    ELSE DirIncluded(Tail(flat_list), path,
                     DirStep(included, Head(flat_list), path))

RECURSIVE FileIncluded(_, _, _)
FileIncluded(flat_list, path, included) ==
    IF flat_list = <<>> THEN included
    ELSE FileIncluded(Tail(flat_list), path,
                      FileStep(included, Head(flat_list), path))

\* dirs[:] = [d for d in dirs if d not in ignore]
KeptDirs(root, dirs, flat_list) ==
    SelectSeq(dirs, LAMBDA d :
        DirIncluded(flat_list, AbsPath(Join(root, d)), TRUE))

\* files[:] = [f for f in files if f not in ignore]
KeptFiles(root, files, flat_list) ==
    SelectSeq(files, LAMBDA f :
        FileIncluded(flat_list, Join(root, f), TRUE))

-----------------------------------------------------------------------------
(* walk: the generator *)

\* the onerror argument as walk hands it to the underlying walk
PassedOnErrorDropped(handler) == "absent"

PassedOnError(handler) == handler

\* Everything walk computes for the directory at the head of the stack, up
\* to the tuple it yields.
VisitOf(root) ==
    LET dir == AbsPath(root)
        starting_directory == AbsPath(directory)
        dirs == SubDirs(dir)
        files == Files(dir, ignore_files)
        has_file == DefaultFilename \in Range(files)
        loaded == IF has_file
                  THEN rules_from_file(ignore_files[dir], DefaultFilename, dir)
                  ELSE [exc |-> "none", rules |-> <<>>]
        rel_path == RelativeTo(dir, starting_directory)
        rl == [k \in DOMAIN rule_list \cup {rel_path} |->
                  IF k = rel_path THEN loaded.rules ELSE rule_list[k]]
        applicable == ApplicableRules(root, directory, rl, starting_directory)
        flat_list == FlatList(applicable.lists, overrides, ignore_completely)
        none_read == /\ \E i \in 1..Len(flat_list) : flat_list[i].kind = "absent"
                     /\ dirs # <<>> \/ files # <<>>
    IN  [has_file |-> has_file,
         rule_list |-> rl,
         flat_list |-> flat_list,
         exc |-> IF loaded.exc # "none" THEN loaded.exc
                 ELSE IF applicable.exc # "none" THEN applicable.exc
                 ELSE IF none_read THEN "AttributeError"
                 ELSE "none",
         loaded |-> loaded.exc = "none",
         dirs |-> IF none_read THEN <<>> ELSE KeptDirs(root, dirs, flat_list),
         files |-> IF none_read THEN <<>> ELSE KeptFiles(root, files, flat_list)]

\* The first resumption of the generator: the arguments are compiled and
\* checked, and the underlying walk is started on the directory argument.
Setup ==
    /\ pc = "start"
    /\ LET starting_directory == AbsPath(directory)
           over == CompileOverrides(overrides_arg, starting_directory)
           hard == CompileIgnoreCompletely(ignore_arg)
           e == SetupException(over, hard)
       IN  IF e # "none"
           THEN /\ pc' = "raised"
                /\ exc' = e
                /\ UNCHANGED <<overrides, ignore_completely, stack>>
           ELSE /\ pc' = "walking"
                /\ overrides' = over
                /\ ignore_completely' = hard
                /\ stack' = <<directory>>
                /\ exc' = exc
    /\ UNCHANGED <<directory, onerror, overrides_arg, ignore_arg, ignore_files,
                   unreadable, rule_list, yielded, chains, enumerated, opened,
                   failed, reported>>
    /\ UNCHANGED compile_vars

\* The underlying walk fails to list the next directory: the error goes to
\* onerror when there is one, and the directory is left out either way.
ListingFails ==
    /\ pc = "walking"
    /\ stack # <<>>
    /\ AbsPath(Head(stack)) \in unreadable
    /\ failed' = Append(failed, Head(stack))
    /\ stack' = Tail(stack)
    /\ CASE PassedOnError(onerror) = "absent" ->
                UNCHANGED <<pc, exc, reported>>
         [] PassedOnError(onerror) = "returns" ->
                /\ reported' = Append(reported, Head(stack))
                /\ UNCHANGED <<pc, exc>>
         [] OTHER ->
                /\ reported' = Append(reported, Head(stack))
                /\ pc' = "raised"
                /\ exc' = "OSError"
    /\ UNCHANGED <<directory, onerror, overrides_arg, ignore_arg, ignore_files,
                   unreadable, overrides, ignore_completely, rule_list,
                   yielded, chains, enumerated, opened>>
    /\ UNCHANGED compile_vars

\* One turn of the loop over the underlying walk: the directory is listed,
\* its ignore file read, its rule chain built, its entries filtered and the
\* tuple yielded; the underlying walk then descends into the kept dirs.
Visit ==
    /\ pc = "walking"
    /\ stack # <<>>
    /\ AbsPath(Head(stack)) \notin unreadable
    /\ LET root == Head(stack)
           v == VisitOf(root)
       IN  /\ enumerated' = enumerated \cup {AbsPath(root)}
           /\ opened' = IF v.has_file THEN opened \cup {AbsPath(root)}
                        ELSE opened
           /\ IF v.exc # "none"
              THEN /\ pc' = "raised"
                   /\ exc' = v.exc
                   /\ rule_list' = IF v.loaded THEN v.rule_list ELSE rule_list
                   /\ UNCHANGED <<stack, yielded, chains>>
              ELSE /\ rule_list' = v.rule_list
                   /\ yielded' = Append(yielded, [root |-> root,
                                                  dirs |-> v.dirs,
                                                  files |-> v.files])
                   /\ chains' = Append(chains, v.flat_list)
                   /\ stack' = [i \in 1..Len(v.dirs) |-> Join(root, v.dirs[i])]
                               \o Tail(stack)
                   /\ UNCHANGED <<pc, exc>>
    /\ UNCHANGED <<directory, onerror, overrides_arg, ignore_arg, ignore_files,
                   unreadable, overrides, ignore_completely, failed, reported>>
    /\ UNCHANGED compile_vars

\* The underlying walk is exhausted: the generator returns.
Finish ==
    /\ pc = "walking"
    /\ stack = <<>>
    /\ pc' = "done"
    /\ UNCHANGED <<directory, onerror, overrides_arg, ignore_arg, ignore_files,
                   unreadable, exc, overrides, ignore_completely, rule_list,
                   stack, yielded, chains, enumerated, opened, failed,
                   reported>>
    /\ UNCHANGED compile_vars

-----------------------------------------------------------------------------
(* The walks that are checked *)

\* pattern texts used as ignore-file lines and as arguments of walk
TextK == <<"k">>
TextNotK == <<"!", "k">>
TextNotGit == <<"!">> \o NameChars(".git")
TextDirB == <<"b", "/">>
TextDirK == <<"k", "/">>
TextStar == <<"*">>
TextComment == <<"#", "c">>

RootLines == {TextK, TextNotK, TextNotGit}

RECURSIVE LinesUpTo(_)
LinesUpTo(n) ==
    IF n = 0 THEN {<<>>}
    ELSE LET shorter == LinesUpTo(n - 1)
         IN shorter \cup {Append(t, l) : t \in {s \in shorter : Len(s) = n - 1},
                                          l \in RootLines}

RootFiles == {NoFile} \cup LinesUpTo(MaxLines)
AFiles == {NoFile, <<TextK>>, <<TextNotK>>, <<TextComment, TextStar>>,
           <<TextDirK, TextDirB>>}

IgnoreFiles(root_file, a_file) ==
    [d \in Dirs |->
        CASE d = StartDir -> root_file
          [] d = DirA -> a_file
          [] d = DirGit -> <<TextNotK>>
          [] OTHER -> NoFile]

OverridesArgs == {<<>>, <<TextNotGit>>, <<TextComment>>}
IgnoreArgs == {Default, <<>>, <<TextNotK>>, <<TextComment, TextNotK>>}
OnErrorArgs == {"absent", "returns", "raises"}
UnreadableSets == {{}, {DirA}}

WalkIdle ==
    /\ directory = StartDir
    /\ onerror = "absent"
    /\ overrides_arg = <<>>
    /\ ignore_arg = Default
    /\ ignore_files = IgnoreFiles(NoFile, NoFile)
    /\ unreadable = {}
    /\ pc = "idle"
    /\ exc = "none"
    /\ overrides = <<>>
    /\ ignore_completely = <<>>
    /\ rule_list = [k \in {} |-> <<>>]
    /\ stack = <<>>
    /\ yielded = <<>>
    /\ chains = <<>>
    /\ enumerated = {}
    /\ opened = {}
    /\ failed = <<>>
    /\ reported = <<>>

CompileIdle ==
    /\ pattern = <<>>
    /\ base_path = None
    /\ result = Pending

\* walk is called: nothing of its body runs before the first resumption
InitWalk ==
    /\ CompileIdle
    /\ directory \in {StartDir, RelativeDir}
    /\ onerror \in OnErrorArgs
    /\ overrides_arg \in OverridesArgs
    /\ ignore_arg \in IgnoreArgs
    /\ \E root_file \in RootFiles, a_file \in AFiles :
            ignore_files = IgnoreFiles(root_file, a_file)
    /\ unreadable \in UnreadableSets
    /\ pc = "start"
    /\ exc = "none"
    /\ overrides = <<>>
    /\ ignore_completely = <<>>
    /\ rule_list = [k \in {} |-> <<>>]
    /\ stack = <<>>
    /\ yielded = <<>>
    /\ chains = <<>>
    /\ enumerated = {}
    /\ opened = {}
    /\ failed = <<>>
    /\ reported = <<>>

NextWalk == Setup \/ ListingFails \/ Visit \/ Finish

SpecWalk == InitWalk /\ [][NextWalk]_vars

-----------------------------------------------------------------------------
(* The calls of rule_from_pattern that are checked *)

CallerSource == [file |-> <<"caller">>, line |-> 0]

InitCompile ==
    /\ WalkIdle
    /\ pattern \in TextsUpTo(MaxLen)
    /\ base_path \in {None, StartDir, RelativeDir}
    /\ result = Pending

\* rule_from_pattern(pattern, base_path, source) is called and ends
Compile ==
    /\ result.kind = "pending"
    /\ result' = rule_from_pattern(pattern, base_path, CallerSource)
    /\ UNCHANGED <<pattern, base_path>>
    /\ UNCHANGED walk_vars

NextCompile == Compile

SpecCompile == InitCompile /\ [][NextCompile]_vars

-----------------------------------------------------------------------------
(* Properties of walk, checked under SpecWalk *)

\* the rules of a chain that apply to the path and match it: for a file
\* the directory-only rules are not applicable
Hits(chain, path, is_directory) ==
    {i \in 1..Len(chain) :
        /\ chain[i].kind = "rule"
        /\ is_directory \/ ~chain[i].directory_only
        /\ Match(chain[i], path)}

Last(hits) == CHOOSE i \in hits : \A j \in hits : j <= i

\* the decision as the claim words it: included when no applicable rule
\* matches, and otherwise "not negation" of the last rule that matches
NotNegationOfLastMatch(chain, path, is_directory) ==
    LET hits == Hits(chain, path, is_directory)
    IN  IF hits = {} THEN TRUE ELSE ~chain[Last(hits)].negation

\* the decision of the last rule that matches: a negation rule includes,
\* any other rule excludes
NegationOfLastMatch(chain, path, is_directory) ==
    LET hits == Hits(chain, path, is_directory)
    IN  IF hits = {} THEN TRUE ELSE chain[Last(hits)].negation

\* C1 as stated: for every yielded tuple, the entries that walk's
\* toggle-guarded loops kept are exactly those for which no applicable rule
\* matches or the last matching rule is not a negation.
C1_IncludedIsNotNegationOfLastMatch ==
    \A i \in 1..Len(yielded) :
        LET dir == AbsPath(yielded[i].root)
        IN  /\ yielded[i].dirs =
                 SelectSeq(SubDirs(dir), LAMBDA d :
                     NotNegationOfLastMatch(chains[i], Join(dir, d), TRUE))
            /\ yielded[i].files =
                 SelectSeq(Files(dir, ignore_files), LAMBDA f :
                     NotNegationOfLastMatch(chains[i], Join(dir, f), FALSE))

\* C1 amended: for every yielded tuple, the subdirectories and files that
\* walk's toggle-guarded loops kept are exactly the entries for which no
\* applicable rule of the chain matches or the last matching rule is a
\* negation (directory-only rules skipped for files), in listing order.
C1_ToggleLoopIsLastMatchWins ==
    \A i \in 1..Len(yielded) :
        LET dir == AbsPath(yielded[i].root)
        IN  /\ yielded[i].dirs =
                 SelectSeq(SubDirs(dir), LAMBDA d :
                     NegationOfLastMatch(chains[i], Join(dir, d), TRUE))
            /\ yielded[i].files =
                 SelectSeq(Files(dir, ignore_files), LAMBDA f :
                     NegationOfLastMatch(chains[i], Join(dir, f), FALSE))

\* C1 witness: the walk of the whole tree ended with an override !.git
\* after which the hard exclude .git matched again, a directory-only rule
\* k/ in the chain of a directory holding the file k, and a negation !k
\* that re-included what the rule k before it excluded.
C1_Witness ==
    /\ pc = "done"
    /\ overrides_arg = <<TextNotGit>>
    /\ ignore_files[DirA] = <<TextDirK, TextDirB>>
    /\ ignore_files[StartDir] = <<TextK, TextNotK>>
    /\ \E i \in 1..Len(yielded) :
            /\ AbsPath(yielded[i].root) = DirA
            /\ yielded[i].dirs = <<>>
            /\ "k" \in Range(yielded[i].files)

\* the declared rules of every directory from the starting directory down
\* to the one with relative path rel, in that order
AncestorRules(rel) ==
    Flatten([n \in 1..(Len(rel) + 1) |-> rule_list[SubSeq(rel, 1, n - 1)]])

\* C2: the chain of every visited directory is the concatenation of the
\* declared rules of its ancestors from the starting directory down to
\* itself, each once, then the overrides, then the hard excludes.
C2_ChainIsAncestorConcatenation ==
    \A i \in 1..Len(yielded) :
        chains[i] =
            AncestorRules(RelativeTo(AbsPath(yielded[i].root),
                                     AbsPath(directory)))
            \o overrides \o ignore_completely

\* C3: the rules declared in a directory D are in the chain of D and of
\* every visited descendant of D, at any depth, and in the chain of no
\* other directory.
C3_RuleScope ==
    \A i \in 1..Len(yielded) :
        LET rel == RelativeTo(AbsPath(yielded[i].root), AbsPath(directory))
        IN  \A D \in DOMAIN rule_list :
                \A n \in 1..Len(rule_list[D]) :
                    (rule_list[D][n] \in Range(chains[i])) <=> IsPrefix(D, rel)

\* a compiled hard exclude matches the path
HardExcluded(path) ==
    \E i \in 1..Len(ignore_completely) :
        /\ ignore_completely[i].kind = "rule"
        /\ Match(ignore_completely[i], path)

\* the directory, or a directory above it below the starting directory,
\* is matched by a hard exclude
UnderHardExcluded(dir) ==
    \E n \in (Len(AbsPath(directory)) + 1)..Len(dir) :
        HardExcluded(SubSeq(dir, 1, n))

\* C4: a subdirectory matched by a hard exclude is in no yielded
\* subdirectory list, no tuple is yielded for it or for anything beneath
\* it, and neither it nor anything beneath it is listed or has its ignore
\* file opened.
C4_HardExcludedNeverVisited ==
    /\ \A i \in 1..Len(yielded) :
            /\ ~UnderHardExcluded(AbsPath(yielded[i].root))
            /\ \A d \in Range(yielded[i].dirs) :
                    ~HardExcluded(Join(AbsPath(yielded[i].root), d))
    /\ \A dir \in enumerated \cup opened : ~UnderHardExcluded(dir)

\* C4 witness: a whole walk with the default hard exclude, with !.git both
\* in the ignore file of the starting directory and among the overrides,
\* that never listed .git.
C4_Witness ==
    /\ pc = "done"
    /\ ignore_arg = Default
    /\ overrides_arg = <<TextNotGit>>
    /\ TextNotGit \in Range(ignore_files[StartDir])
    /\ HardExcluded(DirGit)
    /\ DirGit \notin enumerated
    /\ DirS \in enumerated

\* some hard-exclude pattern compiles to a negation rule
SomeHardExcludeNegated ==
    LET hard == CompileIgnoreCompletely(ignore_arg)
    IN  \E i \in 1..Len(hard) : hard[i].kind = "rule" /\ hard[i].negation

\* every override and hard-exclude pattern compiles to a rule
AllArgumentsCompile ==
    LET hard == CompileIgnoreCompletely(ignore_arg)
        over == CompileOverrides(overrides_arg, AbsPath(directory))
    IN  /\ \A i \in 1..Len(hard) : hard[i].kind = "rule"
        /\ \A i \in 1..Len(over) : over[i].kind = "rule"

C8_FailurePropagatesWithoutOnError ==
    failed # <<>> =>
        /\ onerror # "absent" => reported = failed
        /\ onerror = "absent" => pc = "raised" /\ exc = "OSError"

\* C8 amended: when the listing of a directory fails, no tuple is yielded
\* for it and the walk goes on to the remaining directories, both without
\* onerror (the failure is dropped) and with an onerror that returns (the
\* failure is passed to it); an onerror that raises ends the walk.  The
\* tuples yielded so far are kept by every step.
C8_FailureSkipsDirectory ==
    [][/\ IsPrefix(yielded, yielded')
       /\ (pc = "walking" /\ stack # <<>>
           /\ AbsPath(Head(stack)) \in unreadable) =>
            /\ yielded' = yielded
            /\ stack' = Tail(stack)
            /\ onerror = "absent" =>
                    pc' = "walking" /\ reported' = reported
            /\ onerror = "returns" =>
                    pc' = "walking" /\ reported' = Append(reported, Head(stack))
            /\ onerror = "raises" =>
                    pc' = "raised" /\ reported' = Append(reported, Head(stack))
      ]_vars

\* C8 witness: a walk without onerror failed to list /r/a, yielded the
\* tuple of /r/s after that, and ended normally.
C8_Witness ==
    /\ onerror = "absent"
    /\ failed = <<DirA>>
    /\ pc = "done"
    /\ \E i \in 1..Len(yielded) : yielded[i].root = DirS

\* C9: every rule of every chain has an absolute base_path: the directory
\* of its ignore file, or the starting directory for an override and for a
\* hard exclude.
C9_DeclaringPathAbsolute ==
    \A i \in 1..Len(chains) :
        \A n \in 1..Len(chains[i]) :
            LET rule == chains[i][n]
            IN  rule.kind = "rule" =>
                    /\ IsAbsolute(rule.base_path)
                    /\ rule.base_path =
                         IF rule.source \in {ManualOverride, ApplicationOverride}
                         THEN AbsPath(directory)
                         ELSE Front(rule.source.file)

-----------------------------------------------------------------------------
(* Properties of rule_from_pattern, checked under SpecCompile *)

\* C6: a call of rule_from_pattern ends by returning a Rule or None; it
\* raises only for a base_path that is not absolute.
C6_RaisesOnlyOnRelativeBasePath ==
    result.kind = "raise" => base_path = RelativeDir

\* the text after one leading "!" is taken off
BodyOf(text) == IF text # <<>> /\ text[1] = "!" THEN Tail(text) ELSE text

\* a "**" of the body that is not at its very start, not at its very end
\* and not bounded by "/" on both sides
MisplacedDoubleAsterisk(body) ==
    \E i \in 2..(Len(body) - 2) :
        /\ body[i] = "*" /\ body[i + 1] = "*"
        /\ ~(body[i - 1] = "/" /\ body[i + 2] = "/")

\* the texts for which no Rule may exist, the comparison of the body with
\* "/" left out
RejectedForForm(text) ==
    \/ Strip(text) = <<>>
    \/ text[1] = "#"
    \/ FindTripleAsterisk(text)
    \/ MisplacedDoubleAsterisk(BodyOf(text))

\* C7 as stated: no Rule is returned for a text that is blank, a comment,
\* holds "***", has a misplaced "**" in its body, or whose body, trimmed
\* at both ends, is "/".
C7_NoRuleForRejectedTrimmed ==
    result.kind = "rule" =>
        ~(RejectedForForm(pattern) \/ Strip(BodyOf(pattern)) = <<"/">>)

\* C7 amended: no Rule is returned for a text that is blank, a comment,
\* holds "***", has a misplaced "**" in its body (the body being the text
\* after one leading "!"), or whose body, with trailing whitespace removed,
\* is "/".
C7_NoRuleForRejected ==
    result.kind = "rule" =>
        ~(RejectedForForm(pattern) \/ RStrip(BodyOf(pattern)) = <<"/">>)

\* C7 witness: a/**a was compiled and no Rule came back
C7_Witness ==
    /\ pattern = <<"a", "/", "*", "*", "a">>
    /\ base_path = StartDir
    /\ result.kind = "absent"

\* the body after one leading "/" is taken off
AfterLeadingSlash(body) ==
    IF body # <<>> /\ body[1] = "/" THEN Tail(body) ELSE body

\* the text begins with "**" immediately followed by "/"
BeginsDoubleAsteriskSlash(t) ==
    Len(t) >= 3 /\ t[1] = "*" /\ t[2] = "*" /\ t[3] = "/"

\* anchored as section 4.1 has it
ExpectedAnchored(body) ==
    IF BeginsDoubleAsteriskSlash(AfterLeadingSlash(body)) THEN FALSE
    ELSE Contains(Front(body), "/")

\* the glob fragment as section 4.1 has it: a leading "**/" removed, then
\* at most one leading "/" and one trailing "/"
ExpectedFragment(body) ==
    LET t1 == AfterLeadingSlash(body)
        t2 == IF BeginsDoubleAsteriskSlash(t1) THEN DropFirst(t1, 3) ELSE t1
        t3 == AfterLeadingSlash(t2)
    IN  IF t3 # <<>> /\ t3[Len(t3)] = "/" THEN Front(t3) ELSE t3

\* C10: for every Rule returned, anchored and the translated glob fragment
\* are those of section 4.1; in particular a leading "**" that is not
\* followed by "/" stays in the fragment.
C10_AnchoredAndFragment ==
    result.kind = "rule" =>
        /\ result.anchored = ExpectedAnchored(BodyOf(pattern))
        /\ result.regex =
             [anchor |-> ExpectedAnchored(BodyOf(pattern)),
              tokens |-> fnmatch_pathname_to_regex(
                             ExpectedFragment(BodyOf(pattern)))]

====
